---------------------------- MODULE Spec2Model ----------------------------
(***************************************************************************)
(* Model of viur-core's request cache (src/cache.py): the key derivation   *)
(* keyFromArgs, the wrapper wrapCallable.wrapF around a cached handler,    *)
(* and the deferred task flushCache.                                       *)
(*                                                                         *)
(* Conventions.  A Python string is a sequence of code points, so that the *)
(* datastore's ordering of the "path" property and str.rstrip/endswith are *)
(* computed and not assumed.  A Python value is a record [t, v]: t is the  *)
(* type name that repr() makes visible, v the content as code points.      *)
(* Parameter names and dictionary keys are TLA+ strings.  The source is    *)
(* Python 2 (f.func_defaults, line 49).                                    *)
(***************************************************************************)
EXTENDS Integers, Sequences, FiniteSets, TLC

VARIABLES
    conf,      \* viur.server.config.conf: the two entries cache.py reads
    wrapper,   \* the arguments enableCache was given, and the wrapped f
    store,     \* the datastore kind "viur-cache": key name -> entity
    now,       \* datetime.now(), in seconds
    tasks,     \* deferred flushCache calls not yet run (a sequence of prefixes)
    last,      \* the latest operation, its inputs and what its caller observed
    kin,       \* inputs of a direct keyFromArgs call
    calls,     \* the keyFromArgs calls made so far: <<[in, out], ...>>
    run        \* where the invocations and the flush under way stand (SpecRace)

vars == <<conf, wrapper, store, now, tasks, last, kin, calls, run>>

----------------------------------------------------------------------------
(* Bounds of the model.                                                    *)

\* the clock runs from 0 to MaxTime
MaxTime == 3
\* at most MaxTasks deferred flushCache calls wait at a time
MaxTasks == 1

----------------------------------------------------------------------------
(* Strings.                                                                *)

\* code points of the characters the source names
Chr == [star |-> 42, slash |-> 47, repl |-> 65533]

\* a < b in the datastore's ordering of string values (by code point)
RECURSIVE StrLess(_, _)
StrLess(a, b) ==
    IF b = <<>> THEN FALSE
    ELSE IF a = <<>> THEN TRUE
    ELSE IF Head(a) # Head(b) THEN Head(a) < Head(b)
    ELSE StrLess(Tail(a), Tail(b))

\* str.rstrip("*")
RECURSIVE RStripStar(_)
RStripStar(s) ==
    IF s # <<>> /\ s[Len(s)] = Chr.star
    THEN RStripStar(SubSeq(s, 1, Len(s) - 1))
    ELSE s

\* str.endswith("*")
EndsWithStar(s) == s # <<>> /\ s[Len(s)] = Chr.star

\* "/".join(segs)
RECURSIVE JoinSlash(_)
JoinSlash(segs) ==
    IF segs = <<>> THEN <<>>
    ELSE IF Len(segs) = 1 THEN segs[1]
    ELSE segs[1] \o <<Chr.slash>> \o JoinSlash(Tail(segs))

\* a is a prefix of b (used by the properties only; the code compares with < and >)
IsPrefix(a, b) == Len(a) <= Len(b) /\ SubSeq(b, 1, Len(a)) = a

----------------------------------------------------------------------------
(* Python values.                                                          *)

NoneVal == [t |-> "NoneType", v |-> <<>>]
StrVal(s) == [t |-> "str", v |-> s]
\* the literal "__ISUSER" of line 70
IsUserVal == StrVal(<<95, 95, 73, 83, 85, 83, 69, 82>>)
\* the literal "" of line 89
EmptyStr == StrVal(<<>>)

----------------------------------------------------------------------------
(* keyFromArgs, lines 22-100.                                              *)
(*                                                                         *)
(* Its input is the record                                                 *)
(*   [f, userSensitive, languageSensitive, evaluatedArgs, path, args,      *)
(*    kwargs,                       the seven parameters                   *)
(*    user, language, envKey, versionId]   what it reads from the request  *)
(* f is [name, argsOrder, defaults, varkw]: the function's name, which     *)
(* keyFromArgs never reads, co_varnames[1:co_argcount], func_defaults, and *)
(* whether f declares **kwargs of its own.  user is [auth, key].  envKey is the outcome of          *)
(* conf["viur.cacheEnvironmentKey"]: [t |-> "unset"] when no hook is set,  *)
(* [t |-> "RuntimeError"] when the hook raises it, else the value it       *)
(* returns.  versionId is environ["CURRENT_VERSION_ID"], or                *)
(* [t |-> "missing"] when the lookup fails.                                *)

EnvUnset == [t |-> "unset", v |-> <<>>]
EnvRuntimeError == [t |-> "RuntimeError", v |-> <<>>]
VersionMissing == [t |-> "missing", v |-> <<>>]

\* d.update(e) on dictionaries (functions from names to values)
DictUpdate(d, e) ==
    [k \in DOMAIN d \cup DOMAIN e |-> IF k \in DOMAIN e THEN e[k] ELSE d[k]]

EmptyDict == [k \in {} |-> NoneVal]

Min(a, b) == IF a < b THEN a ELSE b

\* faulty variant: the defaults go to the first parameters, not the last
DefaultsIn_Front(f) ==
    LET d == Min(Len(f.defaults), Len(f.argsOrder))
    IN  [k \in {f.argsOrder[i] : i \in 1..d} |->
            f.defaults[CHOOSE i \in 1..d : f.argsOrder[i] = k]]

\* lines 46-51: the last Len(f.defaults) parameters get their defaults
DefaultsIn(f) ==
    LET n == Len(f.argsOrder)
        d == Min(Len(f.defaults), n)
    IN  [k \in {f.argsOrder[i] : i \in (n - d + 1)..n} |->
            f.defaults[(CHOOSE i \in (n - d + 1)..n : f.argsOrder[i] = k)
                       - (n - Len(f.defaults))]]

\* lines 53-57: the positions of *args that are mapped to a name
MappedPositions(f, evaluatedArgs, args) ==
    {i \in 1..Min(Len(args), Len(f.argsOrder)) : f.argsOrder[i] \in evaluatedArgs}

\* line 56: setArgs
SetArgs(f, evaluatedArgs, args) ==
    {f.argsOrder[i] : i \in MappedPositions(f, evaluatedArgs, args)}

\* lines 54-57: res after "Map args in"
ArgsIn(res, f, evaluatedArgs, args) ==
    DictUpdate(res,
        [k \in SetArgs(f, evaluatedArgs, args) |->
            args[CHOOSE i \in MappedPositions(f, evaluatedArgs, args) :
                    f.argsOrder[i] = k]])

\* faulty variant: the check is missing and the keyword silently wins
DuplicateArgs_Never(f, evaluatedArgs, args, kwargs) == FALSE

\* lines 59-62: some keyword argument repeats a positional one
DuplicateArgs(f, evaluatedArgs, args, kwargs) ==
    \E k \in DOMAIN kwargs :
        k \in evaluatedArgs /\ k \in SetArgs(f, evaluatedArgs, args)

\* lines 59-63: res after "map the kwargs in"
KwargsIn(res, evaluatedArgs, kwargs) ==
    DictUpdate(res, [k \in DOMAIN kwargs \cap evaluatedArgs |-> kwargs[k]])

\* faulty variant: logged-in users are cached under userSensitive = 1 as well
GuestsOnlyRefusal_Never(userSensitive, user) == FALSE

\* line 66: the call is not cached at all
GuestsOnlyRefusal(userSensitive, user) == userSensitive = 1 /\ user.auth

\* faulty variant: userSensitive = 3 files every logged-in user under "__ISUSER"
UserIn_OneBucket(res, userSensitive, user) ==
    IF userSensitive \in {2, 3}
    THEN DictUpdate(res, [k \in {"__user"} |->
                              IF user.auth THEN IsUserVal ELSE NoneVal])
    ELSE res

\* lines 64-77: res["__user"]
UserIn(res, userSensitive, user) ==
    IF userSensitive = 2
    THEN DictUpdate(res, [k \in {"__user"} |->
                              IF user.auth THEN IsUserVal ELSE NoneVal])
    ELSE IF userSensitive = 3
    THEN DictUpdate(res, [k \in {"__user"} |->
                              IF user.auth THEN StrVal(user.key) ELSE NoneVal])
    ELSE res

\* lines 78-79: res["__lang"]
LangIn(res, languageSensitive, language) ==
    IF languageSensitive
    THEN DictUpdate(res, [k \in {"__lang"} |-> StrVal(language)])
    ELSE res

\* lines 80-82: res["_cacheEnvironment"]
EnvIn(res, envKey) ==
    IF envKey.t \in {"unset", "RuntimeError"} THEN res
    ELSE DictUpdate(res, [k \in {"_cacheEnvironment"} |-> envKey])

\* str.split('.')[0], line 87
RECURSIVE SplitDotFirst(_)
SplitDotFirst(s) ==
    IF s = <<>> \/ Head(s) = 46 THEN <<>>
    ELSE <<Head(s)>> \o SplitDotFirst(Tail(s))

\* faulty variant: the version is never found out
AppVersion_Empty(versionId) == EmptyStr

\* lines 86-90: appVersion
AppVersion(versionId) ==
    IF versionId.t = "missing" THEN EmptyStr
    ELSE StrVal(SplitDotFirst(versionId.v))

\* lines 85-91: res["__path"], res["__appVersion"]
PathVersionIn(res, path, versionId) ==
    DictUpdate(res, [k \in {"__path", "__appVersion"} |->
                        IF k = "__path" THEN StrVal(path)
                        ELSE AppVersion(versionId)])

\* faulty variant: the last check is missing
AllSatisfied_Always(res, f) == TRUE

\* line 93: every declared parameter has a value
AllSatisfied(res, f) ==
    \A i \in 1..Len(f.argsOrder) : f.argsOrder[i] \in DOMAIN res

\* The dictionary keys of the model in the order sort() gives them (ASCII:
\* "_" sorts before the lower-case letters), line 97.
NameOrder ==
    <<"__appVersion", "__lang", "__path", "__user", "_cacheEnvironment",
      "id", "order", "style">>

\* lines 96-97: list(res.items()), sorted by key
SortedItems(res) ==
    LET Present(k) == k \in DOMAIN res
        ks == SelectSeq(NameOrder, Present)
    IN  [i \in 1..Len(ks) |-> <<ks[i], res[ks[i]]>>]

\* lines 98-100: sha512(str(res)).hexdigest().  repr() shows a value's type
\* and content, and the digest is taken to be collision free: the key is the
\* serialized list under a tag.
Sha512Hex(items) == <<"sha512", items>>

KeyResult(k) == [kind |-> "key", key |-> k]
NoKey == [kind |-> "None", key |-> <<>>]
RaisedAssertion == [kind |-> "AssertionError", key |-> <<>>]

\* keyFromArgs, lines 45-100, in the order the code takes its exits
keyFromArgs(in) ==
    LET res3 == KwargsIn(ArgsIn(DefaultsIn(in.f), in.f, in.evaluatedArgs, in.args),
                         in.evaluatedArgs, in.kwargs)
        res5 == LangIn(UserIn(res3, in.userSensitive, in.user),
                       in.languageSensitive, in.language)
        res7 == PathVersionIn(EnvIn(res5, in.envKey), in.path, in.versionId)
    IN  IF DuplicateArgs(in.f, in.evaluatedArgs, in.args, in.kwargs)
        THEN RaisedAssertion
        ELSE IF GuestsOnlyRefusal(in.userSensitive, in.user) THEN NoKey
        ELSE IF in.envKey.t = "RuntimeError" THEN NoKey
        ELSE IF ~AllSatisfied(res7, in.f) THEN NoKey
        ELSE KeyResult(Sha512Hex(SortedItems(res7)))

----------------------------------------------------------------------------
(* wrapCallable.wrapF, lines 110-150.                                      *)
(*                                                                         *)
(* A wrapper is [f, urls, userSensitive, languageSensitive, evaluatedArgs, *)
(* maxCacheTime]: the arguments of wrapCallable.  A request rq is          *)
(*   [pathlist, nargs,     currentRequest.pathlist, len(currentRequest.args)*)
(*    args, kwargs,        *args and **kwargs of the call                  *)
(*    disableCache,        currentRequest.disableCache                     *)
(*    user, language, envKey, versionId]   as read by keyFromArgs          *)
(* and h = [data, ctype] is what f does when it runs: the value it returns *)
(* and the Content-Type header it leaves on the response.  db is what the  *)
(* datastore does with the calls of this invocation: [get, put], each "ok" *)
(* or an error other than EntityNotFoundError; a db.Put that fails may     *)
(* still have been applied ("ErrorApplied").                               *)

IntVal(n) == [t |-> "int", v |-> <<n>>]

\* faulty variant: only None counts as "no max-age"
Falsy_NoneOnly(x) == x.t = "NoneType"

\* "not x" for the values maxCacheTime takes: None and 0 are false
Falsy(x) == x.t = "NoneType" \/ (x.t = "int" /\ x.v[1] = 0)

\* the Content-Type header of a response no handler has touched
DefaultType == "text/html"

\* currentRequest.pathlist[: offset], lines 118-119
PathlistUpTo(pathlist, nargs) ==
    LET n == Len(pathlist)
        offset == IF nargs # 0 THEN 0 - nargs ELSE n
        stop == IF offset >= 0 THEN Min(offset, n)
                ELSE IF n + offset > 0 THEN n + offset ELSE 0
    IN  SubSeq(pathlist, 1, stop)

\* line 119: path
RequestPath(rq) == <<Chr.slash>> \o JoinSlash(PathlistUpTo(rq.pathlist, rq.nargs))

\* Python's binding of f(self, *args, **kwargs) for an f without *args of
\* its own: the call raises TypeError before f runs when an argument is
\* unexpected (a keyword is, unless f declares **kwargs), given twice, or
\* missing without a default.
BindError(f, args, kwargs) ==
    LET n == Len(f.argsOrder)
        names == {f.argsOrder[i] : i \in 1..n}
        positional == {f.argsOrder[i] : i \in 1..Min(Len(args), n)}
    IN  \/ Len(args) > n
        \/ ~f.varkw /\ DOMAIN kwargs \ names # {}
        \/ DOMAIN kwargs \cap positional # {}
        \/ names \ (positional \cup DOMAIN kwargs \cup DOMAIN DefaultsIn(f)) # {}

\* what the caller of wrapF observes, and the store it leaves:
\* kind/exc/data: the value returned or the exception raised; ctype: the
\* response's Content-Type afterwards; fCalls: calls f(self, *args, **kwargs)
\* made; reads/writes: db.Get and db.Put calls made; found: db.Get returned
\* an entity (dbRes of line 130)
Outcome(kind, exc, data, ctype, fCalls, reads, writes, found, st) ==
    [kind |-> kind, exc |-> exc, data |-> data, ctype |-> ctype,
     fCalls |-> fCalls, reads |-> reads, writes |-> writes, found |-> found,
     store |-> st]

\* return (f(self, *args, **kwargs)), lines 116, 123 and 128
CallDirect(w, st, rq, h) ==
    IF BindError(w.f, rq.args, rq.kwargs)
    THEN Outcome("raise", "TypeError", "", DefaultType, 1, 0, 0, FALSE, st)
    ELSE Outcome("return", "", h.data, h.ctype, 1, 0, 0, FALSE, st)

\* faulty variant: the request's own opt-out is ignored
CacheDisabled_ConfOnly(c, rq) == c.disableCache

\* line 112: caching is switched off, by the configuration or by the request
CacheDisabled(c, rq) == c.disableCache \/ rq.disableCache

\* the call wrapF makes of keyFromArgs, line 124
KeyInput(c, w, rq) ==
    [f |-> w.f, userSensitive |-> w.userSensitive,
     languageSensitive |-> w.languageSensitive,
     evaluatedArgs |-> w.evaluatedArgs, path |-> RequestPath(rq),
     args |-> rq.args, kwargs |-> rq.kwargs,
     user |-> rq.user, language |-> rq.language,
     envKey |-> IF c.cacheEnvironmentKey THEN rq.envKey ELSE EnvUnset,
     versionId |-> rq.versionId]

\* faulty variant: an entity aged exactly maxCacheTime is still served
Fresh_Inclusive(maxCacheTime, entity, t) ==
    \/ Falsy(maxCacheTime)
    \/ entity.creationtime >= t - maxCacheTime.v[1]

\* lines 134-135: the entity found is served
Fresh(maxCacheTime, entity, t) ==
    \/ Falsy(maxCacheTime)
    \/ entity.creationtime > t - maxCacheTime.v[1]

\* faulty variant: the content type is taken before the handler has set it
NewEntity_DefaultType(data, t, path, ctype) ==
    [data |-> data, creationtime |-> t, path |-> path,
     contentType |-> DefaultType]

\* lines 142-146: the entity a miss writes
NewEntity(data, t, path, ctype) ==
    [data |-> data, creationtime |-> t, path |-> path, contentType |-> ctype]

\* faulty variant: an entity that exists keeps its content type
Put_Merge(st, key, entity) ==
    [k \in DOMAIN st \cup {key} |->
        IF k # key THEN st[k]
        ELSE IF key \in DOMAIN st
        THEN [entity EXCEPT !.contentType = st[key].contentType]
        ELSE entity]

\* db.Put, line 148: the entity replaces whatever the key held
Put(st, key, entity) ==
    [k \in DOMAIN st \cup {key} |-> IF k = key THEN entity ELSE st[k]]

\* a datastore that answers every call
DbOk == [get |-> "ok", put |-> "ok"]

\* faulty variant: an entity found too old is deleted and not rebuilt
Rebuild_Evict(w, st, t, rq, h, key, db, found) ==
    IF BindError(w.f, rq.args, rq.kwargs)
    THEN Outcome("raise", "TypeError", "", DefaultType, 1, 1, 0, found, st)
    ELSE IF found
    THEN Outcome("return", "", h.data, h.ctype, 1, 1, 0, found,
                 [k \in DOMAIN st \ {key} |-> st[k]])
    ELSE Outcome("return", "", h.data, h.ctype, 1, 1, 1, found,
                 Put(st, key, NewEntity(h.data, t, RequestPath(rq), h.ctype)))

\* lines 141-150: the rebuild; found is whether db.Get returned an entity
Rebuild(w, st, t, rq, h, key, db, found) ==
    IF BindError(w.f, rq.args, rq.kwargs)
    THEN Outcome("raise", "TypeError", "", DefaultType, 1, 1, 0, found, st)
    ELSE IF db.put = "ok"
    THEN Outcome("return", "", h.data, h.ctype, 1, 1, 1, found,
                 Put(st, key, NewEntity(h.data, t, RequestPath(rq), h.ctype)))
    ELSE Outcome("raise", "db.Error", "", h.ctype, 1, 1, 1, found,
                 IF db.put = "ErrorApplied"
                 THEN Put(st, key, NewEntity(h.data, t, RequestPath(rq), h.ctype))
                 ELSE st)

\* faulty variant: every error of db.Get is taken for a miss
Lookup_CatchAll(w, st, t, rq, h, key, db) ==
    IF db.get = "ok" /\ key \in DOMAIN st /\ Fresh(w.maxCacheTime, st[key], t)
    THEN Outcome("return", "", st[key].data, st[key].contentType, 0, 1, 0,
                 TRUE, st)
    ELSE Rebuild(w, st, t, rq, h, key, db, db.get = "ok" /\ key \in DOMAIN st)

\* lines 129-150: the lookup, and the hit or the rebuild.  db.Get raises
\* EntityNotFoundError when the key is not in the store (caught, line 131);
\* any other error leaves wrapF at line 130.
Lookup(w, st, t, rq, h, key, db) ==
    IF db.get # "ok"
    THEN Outcome("raise", "db.Error", "", DefaultType, 0, 1, 0, FALSE, st)
    ELSE IF key \in DOMAIN st /\ Fresh(w.maxCacheTime, st[key], t)
    THEN Outcome("return", "", st[key].data, st[key].contentType, 0, 1, 0,
                 TRUE, st)
    ELSE Rebuild(w, st, t, rq, h, key, db, key \in DOMAIN st)

\* wrapF, lines 110-150
wrapF(c, w, st, t, rq, h, db) ==
    IF CacheDisabled(c, rq) THEN CallDirect(w, st, rq, h)
    ELSE IF RequestPath(rq) \notin w.urls THEN CallDirect(w, st, rq, h)
    ELSE LET key == keyFromArgs(KeyInput(c, w, rq))
         IN  IF key.kind = "AssertionError"
             THEN Outcome("raise", "AssertionError", "", DefaultType, 0, 0, 0,
                          FALSE, st)
             ELSE IF key.kind = "None" THEN CallDirect(w, st, rq, h)
             ELSE Lookup(w, st, t, rq, h, key.key, db)

----------------------------------------------------------------------------
(* flushCache, lines 192-214.                                              *)

\* faulty variant: the loop stops after its first db.Delete
DeleteAll_OnlyFirst(st, ks) ==
    IF ks = {} THEN st
    ELSE [k \in DOMAIN st \ {CHOOSE x \in ks : TRUE} |-> st[k]]

\* db.Delete of every key in ks
DeleteAll(st, ks) == [k \in DOMAIN st \ ks |-> st[k]]

\* faulty variant: the first query matches by prefix
PathEquals_StartsWith(st, stem) ==
    {k \in DOMAIN st : IsPrefix(stem, st[k].path)}

\* line 206: Query.filter("path =", stem)
PathEquals(st, stem) == {k \in DOMAIN st : st[k].path = stem}

\* lines 210-211: Query.filter("path >", stem).filter("path <", stem + u"\ufffd")
PathInRange(st, stem) ==
    {k \in DOMAIN st :
        StrLess(stem, st[k].path) /\ StrLess(st[k].path, stem \o <<Chr.repl>>)}

\* the body of flushCache, lines 206-213
flushCache(st, prefix) ==
    LET stem == RStripStar(prefix)
        st1 == DeleteAll(st, PathEquals(st, stem))
    IN  IF EndsWithStar(prefix)
        THEN DeleteAll(st1, PathInRange(st1, stem))
        ELSE st1

----------------------------------------------------------------------------
(* The state machine.                                                      *)

\* the requests that may be under way at a time
RaceSlots == {1, 2}

\* no invocation and no flush is under way
RunIdle ==
    [req |-> [i \in RaceSlots |-> [pc |-> "idle"]],
     flush |-> [pc |-> "idle", prefix |-> <<>>, todo |-> {}, raced |-> FALSE]]

\* what the caller of wrapF sees of an outcome
Observed(o) ==
    [kind |-> o.kind, exc |-> o.exc, data |-> o.data, ctype |-> o.ctype,
     fCalls |-> o.fCalls, reads |-> o.reads, writes |-> o.writes,
     found |-> o.found]

\* one request handled by the wrapped handler: wrapF(self, *args, **kwargs)
Invoke(rq, h) ==
    LET o == wrapF(conf, wrapper, store, now, rq, h, DbOk)
    IN  /\ store' = o.store
        /\ last' = [op |-> "wrapF", rq |-> rq, h |-> h, out |-> Observed(o)]
        /\ UNCHANGED <<conf, wrapper, now, tasks, kin, calls, run>>

\* the same, with a datastore that may fail
InvokeDb(rq, h, db) ==
    LET o == wrapF(conf, wrapper, store, now, rq, h, db)
    IN  /\ store' = o.store
        /\ last' = [op |-> "wrapF", rq |-> rq, h |-> h, db |-> db,
                    out |-> Observed(o)]
        /\ UNCHANGED <<conf, wrapper, now, tasks, kin, calls, run>>

\* a second passes
Tick ==
    /\ now < MaxTime
    /\ now' = now + 1
    /\ last' = [op |-> "tick"]
    /\ UNCHANGED <<conf, wrapper, store, tasks, kin, calls, run>>

\* flushCache(prefix) as called: @tasks.callDeferred (line 192) only queues it
Defer(prefix) ==
    /\ Len(tasks) < MaxTasks
    /\ tasks' = Append(tasks, prefix)
    /\ last' = [op |-> "defer", prefix |-> prefix]
    /\ UNCHANGED <<conf, wrapper, store, now, kin, calls, run>>

\* the task queue runs one of the deferred calls; deleted counts its db.Delete calls
RunFlush ==
    \E i \in 1..Len(tasks) :
        /\ store' = flushCache(store, tasks[i])
        /\ tasks' = SubSeq(tasks, 1, i - 1) \o SubSeq(tasks, i + 1, Len(tasks))
        /\ last' = [op |-> "flushCache", prefix |-> tasks[i],
                    deleted |-> Cardinality(DOMAIN store \ DOMAIN store')]
        /\ UNCHANGED <<conf, wrapper, now, kin, calls, run>>

(* The same operations step by step.  An invocation touches the store at *)
(* db.Get (line 130) and at db.Put (line 148); other invocations and the   *)
(* deletions of a flush may come between the two.  flushCache touches it   *)
(* at each query (lines 206, 210: the keys found are those stored when the *)
(* query runs) and at each db.Delete (lines 208, 213).                     *)

\* lines 110-139 of an invocation in slot i: up to db.Get and what follows it
\* when nothing is to be written; otherwise the rebuild is pending
RaceGet(i, rq, h) ==
    LET o == wrapF(conf, wrapper, store, now, rq, h, DbOk)
    IN  /\ run.req[i].pc = "idle"
        /\ IF o.writes = 0
           THEN /\ last' = [op |-> "wrapF", rq |-> rq, h |-> h, out |-> Observed(o)]
                /\ run' = run
           ELSE /\ last' = [op |-> "step"]
                /\ run' = [run EXCEPT !.req[i] =
                              [pc |-> "rebuild", rq |-> rq, h |-> h,
                               found |-> o.found]]
        /\ UNCHANGED <<conf, wrapper, store, now, tasks, kin, calls>>

\* lines 141-150 of the invocation in slot i: f is called and db.Put made;
\* raced notes that the write fell into a flush under way
RacePut(i) ==
    LET r == run.req[i]
        key == keyFromArgs(KeyInput(conf, wrapper, r.rq)).key
        o == Rebuild(wrapper, store, now, r.rq, r.h, key, DbOk, r.found)
    IN  /\ r.pc = "rebuild"
        /\ store' = o.store
        /\ last' = [op |-> "wrapF", rq |-> r.rq, h |-> r.h, out |-> Observed(o)]
        /\ run' = [run EXCEPT !.req[i] = [pc |-> "idle"],
                              !.flush.raced = (run.flush.pc # "idle")]
        /\ UNCHANGED <<conf, wrapper, now, tasks, kin, calls>>

\* the task queue starts one of the deferred calls
FlushBegin ==
    \E i \in 1..Len(tasks) :
        /\ run.flush.pc = "idle"
        /\ tasks' = SubSeq(tasks, 1, i - 1) \o SubSeq(tasks, i + 1, Len(tasks))
        /\ run' = [run EXCEPT !.flush = [pc |-> "query1", prefix |-> tasks[i],
                                         todo |-> {}, raced |-> FALSE]]
        /\ last' = [op |-> "step"]
        /\ UNCHANGED <<conf, wrapper, store, now, kin, calls>>

\* line 206: the first query
FlushQuery1 ==
    /\ run.flush.pc = "query1"
    /\ run' = [run EXCEPT !.flush.pc = "delete1",
                          !.flush.todo = PathEquals(store, RStripStar(run.flush.prefix))]
    /\ last' = [op |-> "step"]
    /\ UNCHANGED <<conf, wrapper, store, now, tasks, kin, calls>>

\* lines 208 and 213: db.Delete(item) for the next item of the loop
FlushDelete ==
    \E k \in run.flush.todo :
        /\ run.flush.pc \in {"delete1", "delete2"}
        /\ store' = DeleteAll(store, {k})
        /\ run' = [run EXCEPT !.flush.todo = run.flush.todo \ {k}]
        /\ last' = [op |-> "step"]
        /\ UNCHANGED <<conf, wrapper, now, tasks, kin, calls>>

\* lines 209-211: after the first loop, the range query of a prefix ending in "*"
FlushQuery2 ==
    /\ run.flush.pc = "delete1" /\ run.flush.todo = {}
    /\ EndsWithStar(run.flush.prefix)
    /\ run' = [run EXCEPT !.flush.pc = "delete2",
                          !.flush.todo = PathInRange(store, RStripStar(run.flush.prefix))]
    /\ last' = [op |-> "step"]
    /\ UNCHANGED <<conf, wrapper, store, now, tasks, kin, calls>>

\* line 214: flushCache returns
FlushEnd ==
    /\ run.flush.todo = {}
    /\ \/ run.flush.pc = "delete2"
       \/ run.flush.pc = "delete1" /\ ~EndsWithStar(run.flush.prefix)
    /\ last' = [op |-> "flushCache", prefix |-> run.flush.prefix,
                raced |-> run.flush.raced]
    /\ run' = [run EXCEPT !.flush = RunIdle.flush]
    /\ UNCHANGED <<conf, wrapper, store, now, tasks, kin, calls>>

----------------------------------------------------------------------------
(* Inputs.                                                                 *)

SegPage == <<112, 97, 103, 101>>
SegView == <<118, 105, 101, 119>>
SegSub == <<115, 117, 98>>
SegEdit == <<101, 100, 105, 116>>
SegPageX == <<112, 97, 103, 101, 88>>
SegFive == <<53>>
\* one character above U+FFFD (U+1F600)
SegEmoji == <<128512>>

StrAsc == <<97, 115, 99>>
StrDesc == <<100, 101, 115, 99>>

\* the path wrapF derives from these segments
Url(segs) == <<Chr.slash>> \o JoinSlash(segs)

\* def render(self, id, order="asc")
Render ==
    [name |-> "render", argsOrder |-> <<"id", "order">>,
     defaults |-> <<StrVal(StrAsc)>>, varkw |-> FALSE]

Guest == [auth |-> FALSE, key |-> <<>>]
UserA == [auth |-> TRUE, key |-> <<117, 65>>]
UserB == [auth |-> TRUE, key |-> <<117, 66>>]

LangEn == <<101, 110>>
LangDe == <<100, 101>>

\* CURRENT_VERSION_ID "1.7" and "2.7"
Version1 == StrVal(<<49, 46, 55>>)
Version2 == StrVal(<<50, 46, 55>>)
\* CURRENT_VERSION_ID "1.9"
Version19 == StrVal(<<49, 46, 57>>)

EnvValue == StrVal(<<101, 49>>)

NoKwargs == EmptyDict
KwId == [k \in {"id"} |-> StrVal(SegFive)]
KwOrder == [k \in {"order"} |-> StrVal(StrDesc)]
KwOrderAsc == [k \in {"order"} |-> StrVal(StrAsc)]
\* order=u"asc": equal to "asc" in Python 2, but repr() shows the type
KwOrderAscU == [k \in {"order"} |-> [t |-> "unicode", v |-> StrAsc]]
KwStyle == [k \in {"style"} |-> StrVal(StrDesc)]

\* def renderPdf(self, id, order="asc"): another handler, same signature
RenderPdf == [Render EXCEPT !.name = "renderPdf"]

\* def compare(self, id, style): no defaults
Compare ==
    [name |-> "compare", argsOrder |-> <<"id", "style">>, defaults |-> <<>>,
     varkw |-> FALSE]

\* def listAll(self, id, **kwargs)
ListAll ==
    [name |-> "listAll", argsOrder |-> <<"id">>, defaults |-> <<>>,
     varkw |-> TRUE]

NoInput == [t |-> "none"]

EmptyStore == [k \in {} |-> NewEntity("", 0, <<>>, "")]

\* what the handler produces when it runs
HandlerOutputs ==
    {[data |-> "body1", ctype |-> "text/html"],
     [data |-> "body2", ctype |-> "application/json"]}

----------------------------------------------------------------------------
(* Spec: one cached handler behind the gateway.                            *)

Wrappers ==
    {[f |-> Render, urls |-> {Url(<<SegPage, SegView>>)},
      userSensitive |-> 0, languageSensitive |-> FALSE,
      evaluatedArgs |-> {"id", "order"}, maxCacheTime |-> NoneVal],
     [f |-> Render, urls |-> {Url(<<SegPage, SegView>>)},
      userSensitive |-> 1, languageSensitive |-> FALSE,
      evaluatedArgs |-> {"id", "order"}, maxCacheTime |-> IntVal(2)],
     [f |-> Render, urls |-> {Url(<<SegPage, SegView>>)},
      userSensitive |-> 0, languageSensitive |-> FALSE,
      evaluatedArgs |-> {"order"}, maxCacheTime |-> NoneVal]}

Confs ==
    {[disableCache |-> FALSE, cacheEnvironmentKey |-> FALSE],
     [disableCache |-> TRUE, cacheEnvironmentKey |-> FALSE],
     [disableCache |-> FALSE, cacheEnvironmentKey |-> TRUE]}

\* /page/view and /page/view/5, with the trailing "5" as *args
ViewRoute == [pathlist |-> <<SegPage, SegView>>, nargs |-> 0, args |-> <<>>]
ViewFiveRoute ==
    [pathlist |-> <<SegPage, SegView, SegFive>>, nargs |-> 1,
     args |-> <<StrVal(SegFive)>>]

\* /page/edit/5, a route that is not in urls
EditRoute ==
    [pathlist |-> <<SegPage, SegEdit, SegFive>>, nargs |-> 1,
     args |-> <<StrVal(SegFive)>>]

Request(r, kw, d, u, e) ==
    [pathlist |-> r.pathlist, nargs |-> r.nargs, args |-> r.args,
     kwargs |-> kw, disableCache |-> d, user |-> u, language |-> LangEn,
     envKey |-> e, versionId |-> Version1]

\* the outcomes of the hook conf["viur.cacheEnvironmentKey"], when one is set
EnvOutcomes == IF conf.cacheEnvironmentKey THEN {EnvValue, EnvRuntimeError}
               ELSE {EnvUnset}

\* what the hook returns when it does not fail
EnvGood == CHOOSE e \in EnvOutcomes : e # EnvRuntimeError

\* Guests on the cached route with every shape of arguments (id missing, id
\* by position, id by keyword, id twice, order given); a logged-in user; the
\* route that is not cached; a request that opts out; a failing hook.
Requests ==
    {Request(r, kw, FALSE, Guest, EnvGood) :
        r \in {ViewRoute, ViewFiveRoute}, kw \in {NoKwargs, KwId, KwOrder}}
    \cup {Request(ViewFiveRoute, NoKwargs, FALSE, UserA, EnvGood),
          Request(EditRoute, NoKwargs, FALSE, Guest, EnvGood),
          Request(ViewFiveRoute, NoKwargs, TRUE, Guest, EnvGood)}
    \cup {Request(ViewFiveRoute, NoKwargs, FALSE, Guest, e) : e \in EnvOutcomes}

Prefixes == {<<Chr.slash, Chr.star>>}

Init ==
    /\ conf \in Confs
    /\ wrapper \in Wrappers
    /\ store = EmptyStore
    /\ now = 0
    /\ tasks = <<>>
    /\ last = [op |-> "init"]
    /\ kin = NoInput
    /\ calls = <<>>
    /\ run = RunIdle

Next ==
    \/ \E rq \in Requests, h \in HandlerOutputs : Invoke(rq, h)
    \/ Tick
    \/ \E p \in Prefixes : Defer(p)
    \/ RunFlush

Spec == Init /\ [][Next]_vars

----------------------------------------------------------------------------
(* SpecFlush: a handler cached under a hierarchy of paths, and flushes.    *)

\* the routes /, /page, /page/, /page/view, /page/view/sub, /pageX, /<U+1F600>
FlushPathlists ==
    {<<>>, <<SegPage>>, <<SegPage, <<>>>>, <<SegPage, SegView>>,
     <<SegPage, SegView, SegSub>>, <<SegPageX>>, <<SegEmoji>>}

FlushWrapper ==
    [f |-> Render, urls |-> {Url(pl) : pl \in FlushPathlists},
     userSensitive |-> 0, languageSensitive |-> FALSE,
     evaluatedArgs |-> {"id", "order"}, maxCacheTime |-> NoneVal]

FlushRequests ==
    {[pathlist |-> pl, nargs |-> 0, args |-> <<>>, kwargs |-> KwId,
      disableCache |-> FALSE, user |-> Guest, language |-> LangEn,
      envKey |-> EnvUnset, versionId |-> Version1] : pl \in FlushPathlists}

FlushOutput == [data |-> "body1", ctype |-> "text/html"]

\* "/page/view", "/page", "/page/*", "/*" and "/page*"
FlushPrefixes ==
    {Url(<<SegPage, SegView>>), Url(<<SegPage>>),
     Url(<<SegPage, <<Chr.star>>>>), <<Chr.slash, Chr.star>>,
     Url(<<SegPage>>) \o <<Chr.star>>}

InitFlush ==
    /\ conf = [disableCache |-> FALSE, cacheEnvironmentKey |-> FALSE]
    /\ wrapper = FlushWrapper
    /\ store = EmptyStore
    /\ now = 0
    /\ tasks = <<>>
    /\ last = [op |-> "init"]
    /\ kin = NoInput
    /\ calls = <<>>
    /\ run = RunIdle

NextFlush ==
    \/ \E rq \in FlushRequests : Invoke(rq, FlushOutput)
    \/ \E p \in FlushPrefixes : Defer(p)
    \/ RunFlush

SpecFlush == InitFlush /\ [][NextFlush]_vars

----------------------------------------------------------------------------
(* SpecKey: keyFromArgs called directly, once and then once more with one  *)
(* part of the request changed, for every configuration of the wrapper;    *)
(* and the same request sent through wrapF.                                *)

KeyWrappers ==
    {[f |-> Render, urls |-> {Url(<<SegPage, SegView>>)},
      userSensitive |-> m, languageSensitive |-> l,
      evaluatedArgs |-> ev, maxCacheTime |-> NoneVal] :
        m \in 0..3, l \in BOOLEAN, ev \in {{"id", "order"}, {"order"}}}

KeyConfs ==
    {[disableCache |-> FALSE, cacheEnvironmentKey |-> hook] : hook \in BOOLEAN}

KeyUsers == {Guest, UserA, UserB}

KeyLanguages == {LangEn, LangDe}

KeyRequests ==
    {[pathlist |-> r.pathlist, nargs |-> r.nargs, args |-> r.args,
      kwargs |-> kw, disableCache |-> FALSE, user |-> u, language |-> l,
      envKey |-> e, versionId |-> Version1] :
        r \in {ViewRoute, ViewFiveRoute}, kw \in {NoKwargs, KwId, KwOrder},
        u \in KeyUsers, l \in KeyLanguages, e \in EnvOutcomes}

InitKey ==
    /\ conf \in KeyConfs
    /\ wrapper \in KeyWrappers
    /\ kin \in KeyRequests
    /\ store = EmptyStore
    /\ now = 0
    /\ tasks = <<>>
    /\ last = [op |-> "init"]
    /\ calls = <<>>
    /\ run = RunIdle

\* keyFromArgs(f, userSensitive, languageSensitive, evaluatedArgs, path, args, kwargs)
\* for request rq
CallKeyFromArgs(rq) ==
    /\ calls' = Append(calls, [in |-> KeyInput(conf, wrapper, rq),
                               out |-> keyFromArgs(KeyInput(conf, wrapper, rq))])
    /\ UNCHANGED <<conf, wrapper, store, now, tasks, last, kin, run>>

FirstCall == calls = <<>> /\ CallKeyFromArgs(kin)

\* the second call: the same request but for its user, or but for its language
SecondCall ==
    /\ Len(calls) = 1
    /\ \/ \E u \in KeyUsers : CallKeyFromArgs([kin EXCEPT !.user = u])
       \/ \E l \in KeyLanguages : CallKeyFromArgs([kin EXCEPT !.language = l])

NextKey ==
    \/ FirstCall
    \/ SecondCall
    \/ Invoke(kin, FlushOutput)

SpecKey == InitKey /\ [][NextKey]_vars

----------------------------------------------------------------------------
(* SpecArgs: keyFromArgs called twice, for several handlers and            *)
(* allowlists; the second call is the first with one of its parts changed: *)
(* the handler, the arguments, the user, the language, the path, what the  *)
(* hook returns, or the version.                                           *)

ArgsHandlers == {Render, RenderPdf, Compare, ListAll}

\* the handlers with their allowlists
ArgsWrappers ==
    {[f |-> fe[1], urls |-> {Url(<<SegPage, SegView>>), Url(<<SegPageX>>)},
      userSensitive |-> m, languageSensitive |-> TRUE,
      evaluatedArgs |-> fe[2], maxCacheTime |-> NoneVal] :
        fe \in {<<Render, {"id", "order"}>>, <<RenderPdf, {"id", "order"}>>,
                <<Render, {"id"}>>,
                <<Compare, {"id", "style"}>>, <<Compare, {"id"}>>,
                <<ListAll, {"id", "order"}>>},
        m \in {0, 3}}

\* *args: (), ("5"), ("6"), ("5", "asc"), ("5", "desc")
ArgsTuples ==
    {<<>>, <<StrVal(SegFive)>>, <<StrVal(<<54>>)>>,
     <<StrVal(SegFive), StrVal(StrAsc)>>, <<StrVal(SegFive), StrVal(StrDesc)>>}

ArgsKwargs == {NoKwargs, KwId, KwOrder, KwOrderAsc, KwOrderAscU, KwStyle}

\* a second value the hook may return
EnvValue2 == StrVal(<<101, 50>>)

ArgsEnvs == {EnvValue, EnvValue2, EnvRuntimeError}

ArgsVersions == {Version1, Version2, VersionMissing}

ArgsPaths == {Url(<<SegPage, SegView>>), Url(<<SegPageX>>)}

\* the request /page/view/<args>?<kwargs> of user A
ArgsRequest(args, kw) ==
    [pathlist |-> <<SegPage, SegView>> \o [i \in 1..Len(args) |-> args[i].v],
     nargs |-> Len(args), args |-> args, kwargs |-> kw,
     disableCache |-> FALSE, user |-> UserA, language |-> LangEn,
     envKey |-> EnvValue, versionId |-> Version1]

InitArgs ==
    /\ conf \in KeyConfs
    /\ wrapper \in ArgsWrappers
    /\ kin \in {ArgsRequest(a, kw) : a \in ArgsTuples, kw \in ArgsKwargs}
    /\ store = EmptyStore
    /\ now = 0
    /\ tasks = <<>>
    /\ last = [op |-> "init"]
    /\ calls = <<>>
    /\ run = RunIdle

\* keyFromArgs(in.f, in.userSensitive, ..., in.kwargs) in the context in names
KeyCall(in) ==
    /\ calls' = Append(calls, [in |-> in, out |-> keyFromArgs(in)])
    /\ UNCHANGED <<conf, wrapper, store, now, tasks, last, kin, run>>

ArgsFirst == calls = <<>> /\ KeyCall(KeyInput(conf, wrapper, kin))

\* the inputs that differ from in in one part
Neighbours(in) ==
    {[in EXCEPT !.f = g] : g \in ArgsHandlers}
    \cup {[in EXCEPT !.args = a, !.kwargs = kw] :
             a \in ArgsTuples, kw \in ArgsKwargs}
    \cup {[in EXCEPT !.user = u] : u \in KeyUsers}
    \cup {[in EXCEPT !.language = l] : l \in KeyLanguages}
    \cup {[in EXCEPT !.path = p] : p \in ArgsPaths}
    \cup {[in EXCEPT !.envKey = e] : e \in IF in.envKey = EnvUnset THEN {EnvUnset}
                                           ELSE ArgsEnvs}
    \cup {[in EXCEPT !.versionId = v] : v \in ArgsVersions}

ArgsSecond == Len(calls) = 1 /\ \E in \in Neighbours(calls[1].in) : KeyCall(in)

NextArgs ==
    \/ ArgsFirst
    \/ ArgsSecond

SpecArgs == InitArgs /\ [][NextArgs]_vars

----------------------------------------------------------------------------
(* SpecStore: the gateway over a datastore whose calls may fail.           *)

StoreWrapper ==
    [f |-> Render, urls |-> {Url(<<SegPage, SegView>>)},
     userSensitive |-> 0, languageSensitive |-> FALSE,
     evaluatedArgs |-> {"id", "order"}, maxCacheTime |-> NoneVal]

StoreRequests ==
    {Request(ViewFiveRoute, kw, FALSE, Guest, EnvUnset) : kw \in {NoKwargs, KwOrder}}

\* what db.Get and db.Put do in one invocation
DbOutcomes ==
    {[get |-> g, put |-> p] :
        g \in {"ok", "Error"}, p \in {"ok", "Error", "ErrorApplied"}}

InitStore ==
    /\ conf = [disableCache |-> FALSE, cacheEnvironmentKey |-> FALSE]
    /\ wrapper = StoreWrapper
    /\ store = EmptyStore
    /\ now = 0
    /\ tasks = <<>>
    /\ last = [op |-> "init"]
    /\ kin = NoInput
    /\ calls = <<>>
    /\ run = RunIdle

NextStore ==
    \/ \E rq \in StoreRequests, h \in HandlerOutputs, db \in DbOutcomes :
          InvokeDb(rq, h, db)
    \/ \E p \in Prefixes : Defer(p)
    \/ RunFlush

SpecStore == InitStore /\ [][NextStore]_vars

----------------------------------------------------------------------------
(* SpecVersion: the same route requested under several deployed versions;  *)
(* the handler of a version returns that version's id as its output.       *)

VersionIds == {Version1, Version19, Version2, VersionMissing}

VersionRequests ==
    {[Request(ViewFiveRoute, kw, FALSE, Guest, EnvUnset)
        EXCEPT !.versionId = v] : v \in VersionIds, kw \in {NoKwargs, KwOrder}}

\* what the handler deployed as rq.versionId returns
VersionOutput(rq) == [data |-> rq.versionId, ctype |-> "text/html"]

InitVersion ==
    /\ conf = [disableCache |-> FALSE, cacheEnvironmentKey |-> FALSE]
    /\ wrapper = StoreWrapper
    /\ store = EmptyStore
    /\ now = 0
    /\ tasks = <<>>
    /\ last = [op |-> "init"]
    /\ kin = NoInput
    /\ calls = <<>>
    /\ run = RunIdle

NextVersion ==
    \/ \E rq \in VersionRequests : Invoke(rq, VersionOutput(rq))
    \/ \E p \in Prefixes : Defer(p)
    \/ RunFlush

SpecVersion == InitVersion /\ [][NextVersion]_vars

----------------------------------------------------------------------------
(* SpecLife: a handler cached under two paths with a max-age of 0 or of 1  *)
(* second, the clock, and flushes that match one of the paths.             *)

LifeWrappers ==
    {[f |-> Render, urls |-> {Url(<<SegPage, SegView>>), Url(<<SegPageX>>)},
      userSensitive |-> 0, languageSensitive |-> FALSE,
      evaluatedArgs |-> {"id", "order"}, maxCacheTime |-> IntVal(T)] :
        T \in {0, 1}}

\* /pageX/5, with the trailing "5" as *args
PageXFiveRoute ==
    [pathlist |-> <<SegPageX, SegFive>>, nargs |-> 1,
     args |-> <<StrVal(SegFive)>>]

\* /page/view/5, /page/view/5?order=desc and /pageX/5
LifeRequests ==
    {Request(ViewFiveRoute, NoKwargs, FALSE, Guest, EnvUnset),
     Request(ViewFiveRoute, KwOrder, FALSE, Guest, EnvUnset),
     Request(PageXFiveRoute, NoKwargs, FALSE, Guest, EnvUnset)}

\* "/page/*" and "/pageX"
LifePrefixes == {Url(<<SegPage, <<Chr.star>>>>), Url(<<SegPageX>>)}

InitLife ==
    /\ conf = [disableCache |-> FALSE, cacheEnvironmentKey |-> FALSE]
    /\ wrapper \in LifeWrappers
    /\ store = EmptyStore
    /\ now = 0
    /\ tasks = <<>>
    /\ last = [op |-> "init"]
    /\ kin = NoInput
    /\ calls = <<>>
    /\ run = RunIdle

NextLife ==
    \/ \E rq \in LifeRequests, h \in HandlerOutputs : Invoke(rq, h)
    \/ Tick
    \/ \E p \in LifePrefixes : Defer(p)
    \/ RunFlush

SpecLife == InitLife /\ [][NextLife]_vars

----------------------------------------------------------------------------
(* SpecRace: two invocations at a time and a flush of "/page/*", step by   *)
(* step.  The invocation in slot i gets output i from the handler.         *)
(* SpecRaceFair adds that the task queue does run a deferred call and that *)
(* a call that runs goes on to its end.                                    *)

\* /page?id=5, /page/<U+1F600>?id=5, /page/view/5 and /page/view/5?order=desc
RaceRequests ==
    {[pathlist |-> pl, nargs |-> 0, args |-> <<>>, kwargs |-> KwId,
      disableCache |-> FALSE, user |-> Guest, language |-> LangEn,
      envKey |-> EnvUnset, versionId |-> Version1] :
        pl \in {<<SegPage>>, <<SegPage, SegEmoji>>}}
    \cup {Request(ViewFiveRoute, kw, FALSE, Guest, EnvUnset) :
             kw \in {NoKwargs, KwOrder}}

RaceWrapper ==
    [f |-> Render,
     urls |-> {Url(<<SegPage>>), Url(<<SegPage, SegEmoji>>),
               Url(<<SegPage, SegView>>)},
     userSensitive |-> 0, languageSensitive |-> FALSE,
     evaluatedArgs |-> {"id", "order"}, maxCacheTime |-> NoneVal]

\* what the handler returns to the invocation in slot i
RaceOutput(i) ==
    IF i = 1 THEN [data |-> "body1", ctype |-> "text/html"]
    ELSE [data |-> "body2", ctype |-> "application/json"]

\* "/page/*"
RacePrefixes == {Url(<<SegPage, <<Chr.star>>>>)}

InitRace ==
    /\ conf = [disableCache |-> FALSE, cacheEnvironmentKey |-> FALSE]
    /\ wrapper = RaceWrapper
    /\ store = EmptyStore
    /\ now = 0
    /\ tasks = <<>>
    /\ last = [op |-> "init"]
    /\ kin = NoInput
    /\ calls = <<>>
    /\ run = RunIdle

\* the steps of the deferred task
FlushProc ==
    \/ FlushBegin
    \/ FlushQuery1
    \/ FlushDelete
    \/ FlushQuery2
    \/ FlushEnd

NextRace ==
    \/ \E i \in RaceSlots, rq \in RaceRequests : RaceGet(i, rq, RaceOutput(i))
    \/ \E i \in RaceSlots : RacePut(i)
    \/ \E p \in RacePrefixes : Defer(p)
    \/ FlushProc

SpecRace == InitRace /\ [][NextRace]_vars

SpecRaceFair == SpecRace /\ WF_vars(FlushProc)

----------------------------------------------------------------------------
(* Properties of the gateway.  A step of wrapF is recognised by last'.op;  *)
(* store and now are the state it found, store' the state it left.         *)

WrapStep == last'.op = "wrapF"

\* wrapF gets as far as deriving a key for rq
Gated(rq) ==
    ~conf.disableCache /\ ~rq.disableCache /\ RequestPath(rq) \in wrapper.urls

\* the outcome of keyFromArgs for rq
KeyOf(rq) == keyFromArgs(KeyInput(conf, wrapper, rq))

\* every entity but the one under key is as it was
OthersKept(key) ==
    /\ DOMAIN store \ {key} = DOMAIN store' \ {key}
    /\ \A k \in DOMAIN store \ {key} : store'[k] = store[k]

\* the step served the stored entity e and left the store alone
ServedFrom(e) ==
    /\ last'.out.kind = "return"
    /\ last'.out.data = e.data
    /\ last'.out.ctype = e.contentType
    /\ last'.out.fCalls = 0
    /\ store' = store

\* the step ran the handler, returned what it produced and stored that under key
Rebuilt(key) ==
    /\ last'.out.kind = "return"
    /\ last'.out.fCalls = 1
    /\ last'.out.data = last'.h.data
    /\ last'.out.ctype = last'.h.ctype
    /\ key \in DOMAIN store'
    /\ store'[key].data = last'.h.data
    /\ store'[key].contentType = last'.h.ctype
    /\ store'[key].creationtime = now
    /\ OthersKept(key)

\* the age of the entity under key is below the wrapper's max-age, if it has one
WithinMaxAge(key) ==
    \/ wrapper.maxCacheTime = NoneVal
    \/ /\ wrapper.maxCacheTime.t = "int"
       /\ now - store[key].creationtime < wrapper.maxCacheTime.v[1]

C1_Miss ==
    LET k == KeyOf(last'.rq)
    IN  (/\ WrapStep /\ Gated(last'.rq) /\ k.kind = "key"
         /\ k.key \notin DOMAIN store
         /\ ~BindError(wrapper.f, last'.rq.args, last'.rq.kwargs))
        => Rebuilt(k.key)

C1_Hit ==
    LET k == KeyOf(last'.rq)
    IN  (/\ WrapStep /\ Gated(last'.rq) /\ k.kind = "key"
         /\ k.key \in DOMAIN store
         /\ WithinMaxAge(k.key))
        => ServedFrom(store[k.key])

\* between two invocations only a flush takes an entity away or changes it
C1_Between ==
    /\ last'.op \in {"tick", "defer"} => store' = store
    /\ WrapStep => \E key \in DOMAIN store' \cup {<<>>} : OthersKept(key)

\* C1. Write-through: an invocation that derives a key and finds no entity
\* under it stores what the handler returned and the content type it set; the
\* entity stays as written until a flush or a rebuild for the same key; and an
\* invocation that finds it, within the max-age if there is one, returns that
\* payload with that content type and does not call the handler.
C1_WriteThrough == [][C1_Miss /\ C1_Hit /\ C1_Between]_vars

\* a hit under a max-age, serving what an earlier miss stored
C1_Witness ==
    /\ last.op = "wrapF"
    /\ last.out.found /\ last.out.fCalls = 0
    /\ wrapper.maxCacheTime = IntVal(2)
    /\ last.out.data = "body2" /\ last.out.ctype = "application/json"
    /\ last.h.data = "body1"
    /\ now = 1

C2_Stale ==
    LET k == KeyOf(last'.rq)
        T == wrapper.maxCacheTime
    IN  (/\ WrapStep /\ Gated(last'.rq) /\ k.kind = "key"
         /\ k.key \in DOMAIN store
         /\ T.t = "int" /\ T.v[1] > 0
         /\ now - store[k.key].creationtime >= T.v[1]
         /\ ~BindError(wrapper.f, last'.rq.args, last'.rq.kwargs))
        => (last'.out.found /\ Rebuilt(k.key))

C2_Young ==
    LET k == KeyOf(last'.rq)
        T == wrapper.maxCacheTime
    IN  (/\ WrapStep /\ Gated(last'.rq) /\ k.kind = "key"
         /\ k.key \in DOMAIN store
         /\ T.t = "int" /\ T.v[1] > 0
         /\ now - store[k.key].creationtime < T.v[1])
        => (last'.out.found /\ ServedFrom(store[k.key]))

\* C2. Staleness: under a positive max-age T, a lookup that finds an entity
\* with now - creationtime >= T calls the handler and overwrites the entity
\* with creationtime = now; one that finds an entity with
\* now - creationtime < T serves it and does not call the handler.
C2_Staleness == [][C2_Stale /\ C2_Young]_vars

\* an entity written at 0 is found at T = 2 and rebuilt
C2_Witness ==
    /\ last.op = "wrapF"
    /\ wrapper.maxCacheTime = IntVal(2)
    /\ now = 2
    /\ last.out.found /\ last.out.fCalls = 1 /\ last.out.writes = 1
    /\ \E k \in DOMAIN store : store[k].creationtime = 2

\* the outcome is that of the one call f(self, *args, **kwargs), untouched
PassedThrough ==
    /\ last'.out.fCalls = 1
    /\ IF BindError(wrapper.f, last'.rq.args, last'.rq.kwargs)
       THEN last'.out.kind = "raise" /\ last'.out.exc = "TypeError"
       ELSE /\ last'.out.kind = "return"
            /\ last'.out.data = last'.h.data
            /\ last'.out.ctype = last'.h.ctype

NoStoreAccess ==
    /\ last'.out.reads = 0
    /\ last'.out.writes = 0
    /\ store' = store

C3_Step ==
    (/\ WrapStep
     /\ \/ conf.disableCache
        \/ last'.rq.disableCache
        \/ RequestPath(last'.rq) \notin wrapper.urls)
    => (PassedThrough /\ NoStoreAccess)

C3_Paths == \A k \in DOMAIN store' : store'[k].path \in wrapper.urls

\* C3. Bypass: when caching is disabled by the configuration or by the
\* request, or the request's path is not in urls, wrapF calls the handler
\* once, hands its outcome on unchanged and neither reads nor writes the
\* store; so every entity in the store has a path that is in urls.
C3_Bypass == [][C3_Step /\ C3_Paths]_vars

\* a request that opts out is answered by the handler although its entity is stored
C3_Witness ==
    /\ last.op = "wrapF"
    /\ last.rq.disableCache /\ ~conf.disableCache
    /\ last.out.kind = "return" /\ last.out.data = "body1"
    /\ last.out.reads = 0
    /\ \E k \in DOMAIN store :
          /\ k = KeyOf([last.rq EXCEPT !.disableCache = FALSE]).key
          /\ store[k].data = "body2"

\* some declared parameter gets no value for the key: it has no default and
\* is given neither by position nor by keyword among the evaluated arguments
ValueMissing(rq) ==
    \E i \in 1..Len(wrapper.f.argsOrder) :
        LET x == wrapper.f.argsOrder[i]
        IN  /\ i <= Len(wrapper.f.argsOrder) - Len(wrapper.f.defaults)
            /\ ~(i <= Len(rq.args) /\ x \in wrapper.evaluatedArgs)
            /\ ~(x \in DOMAIN rq.kwargs /\ x \in wrapper.evaluatedArgs)

\* the call itself lacks a parameter that has no default
ArgumentAbsent(rq) ==
    \E i \in 1..Len(wrapper.f.argsOrder) :
        /\ i <= Len(wrapper.f.argsOrder) - Len(wrapper.f.defaults)
        /\ i > Len(rq.args)
        /\ wrapper.f.argsOrder[i] \notin DOMAIN rq.kwargs

\* an evaluated argument is given by position and by keyword
GivenTwice(rq) ==
    \E i \in 1..Len(wrapper.f.argsOrder) :
        /\ i <= Len(rq.args)
        /\ wrapper.f.argsOrder[i] \in wrapper.evaluatedArgs
        /\ wrapper.f.argsOrder[i] \in DOMAIN rq.kwargs

HookFails(rq) == conf.cacheEnvironmentKey /\ rq.envKey = EnvRuntimeError

GuestsOnlyAndLoggedIn(rq) == wrapper.userSensitive = 1 /\ rq.user.auth

\* a gated request for which keyFromArgs returns None
Uncacheable(rq) ==
    /\ Gated(rq)
    /\ ~GivenTwice(rq)
    /\ ValueMissing(rq) \/ HookFails(rq) \/ GuestsOnlyAndLoggedIn(rq)

C5_Step ==
    (WrapStep /\ Uncacheable(last'.rq))
    => /\ PassedThrough
       /\ NoStoreAccess
       /\ ArgumentAbsent(last'.rq) => last'.out.exc = "TypeError"
       /\ (HookFails(last'.rq) \/ GuestsOnlyAndLoggedIn(last'.rq))
          /\ ~ArgumentAbsent(last'.rq) => last'.out.kind = "return"

----------------------------------------------------------------------------
(* Properties of flushCache.  A step of the deferred task is recognised by *)
(* last'.op = "flushCache"; store is what it found, store' what it left.   *)

FlushStep == last'.op = "flushCache"

Wildcard(prefix) == prefix # <<>> /\ prefix[Len(prefix)] = Chr.star

\* the step deleted the entities under the keys in gone and no others
DeletedExactly(gone) ==
    /\ DOMAIN store' = DOMAIN store \ gone
    /\ \A k \in DOMAIN store' : store'[k] = store[k]

C7_Step ==
    LET P == last'.prefix
    IN  (FlushStep /\ ~Wildcard(P))
        => DeletedExactly({k \in DOMAIN store : store[k].path = P})

\* C7. Exact flush: for a prefix P without a trailing "*", flushCache(P)
\* deletes the entities whose path equals P and leaves every other entity
\* as it was, those whose path extends P included.
C7_ExactFlush == [][C7_Step]_vars

\* flushCache("/page/view") has deleted an entity and /page/view/sub is still stored
C7_Witness ==
    /\ last.op = "flushCache"
    /\ last.prefix = Url(<<SegPage, SegView>>)
    /\ last.deleted = 1
    /\ \E k \in DOMAIN store : store[k].path = Url(<<SegPage, SegView, SegSub>>)

\* C8 as claimed: flushCache("/page/*") removes the entity with path "/page"
\* and those below it ("/page/view", "/page/view/sub"), and leaves "/pageX".
C8_Original ==
    [][(FlushStep /\ last'.prefix = Url(<<SegPage, <<Chr.star>>>>))
       => \A k \in DOMAIN store :
            /\ (\/ store[k].path = Url(<<SegPage>>)
                \/ IsPrefix(Url(<<SegPage, <<>>>>), store[k].path))
               => k \notin DOMAIN store'
            /\ store[k].path = Url(<<SegPageX>>)
               => (k \in DOMAIN store' /\ store'[k] = store[k])]_vars

\* C9 as claimed: for a prefix ending in "*", with stem S, flushCache deletes
\* an entity if and only if its path is S or extends S, whatever character
\* follows S; flushCache("/*") empties the cache.
C9_Original ==
    [][LET P == last'.prefix
           S == RStripStar(P)
       IN  (FlushStep /\ Wildcard(P))
           => /\ DeletedExactly({k \in DOMAIN store : IsPrefix(S, store[k].path)})
              /\ P = <<Chr.slash, Chr.star>> => store' = EmptyStore]_vars

\* C10. Idempotent flush: in the state flushCache(prefix) leaves, running
\* flushCache(prefix) again changes nothing.
C10_IdempotentFlush ==
    last.op = "flushCache" => flushCache(store, last.prefix) = store

\* a wildcard flush that deleted several entities and left others
C10_Witness ==
    /\ last.op = "flushCache"
    /\ Wildcard(last.prefix)
    /\ last.deleted >= 2
    /\ store # EmptyStore

----------------------------------------------------------------------------
(* Properties of keyFromArgs, over the calls recorded in calls.            *)

\* inputs a and b are the same but for the user
DifferInUserOnly(a, b) == [a EXCEPT !.user = b.user] = b

\* an evaluated argument of the call is given by position and by keyword
GivenTwiceIn(in) ==
    \E i \in 1..Len(in.f.argsOrder) :
        /\ i <= Len(in.args)
        /\ in.f.argsOrder[i] \in in.evaluatedArgs
        /\ in.f.argsOrder[i] \in DOMAIN in.kwargs

\* what C4 says of two calls a, b that differ in the user only
IdentitySensitive(a, b) ==
    LET m == a.in.userSensitive
        bothKeys == a.out.kind = "key" /\ b.out.kind = "key"
        sameUser == a.in.user = b.in.user
    IN  /\ m = 0 => a.out = b.out
        /\ (m = 1 /\ a.in.user.auth) => a.out = NoKey
        /\ (m = 1 /\ ~a.in.user.auth /\ ~b.in.user.auth) => a.out = b.out
        /\ (m = 2 /\ a.in.user.auth /\ b.in.user.auth) => a.out = b.out
        /\ (m = 2 /\ a.in.user.auth /\ ~b.in.user.auth /\ bothKeys)
           => a.out.key # b.out.key
        /\ (m = 3 /\ ~sameUser /\ bothKeys) => a.out.key # b.out.key
        /\ (m = 3 /\ sameUser) => a.out = b.out
        /\ (m \in {2, 3}) => (a.out.kind = "key" <=> b.out.kind = "key")

\* C4. Identity sensitivity: of two calls of keyFromArgs that differ in the
\* caller only (and give no argument twice): under userSensitive = 0 the keys
\* are the same; under 1 a logged-in caller gets None; under 2 all logged-in
\* callers share one key, which is not the guest's; under 3 two different
\* callers, or a caller and the guest, get different keys.
C4_IdentitySensitivity ==
    (/\ Len(calls) = 2
     /\ DifferInUserOnly(calls[1].in, calls[2].in)
     /\ ~GivenTwiceIn(calls[1].in))
    => (IdentitySensitive(calls[1], calls[2])
        /\ IdentitySensitive(calls[2], calls[1]))

\* under userSensitive = 3, two logged-in users have got two keys
C4_Witness ==
    /\ Len(calls) = 2
    /\ wrapper.userSensitive = 3
    /\ calls[1].in.user = UserA /\ calls[2].in.user = UserB
    /\ DifferInUserOnly(calls[1].in, calls[2].in)
    /\ calls[1].out.kind = "key" /\ calls[2].out.kind = "key"

\* C6. Duplicate detection: a call of keyFromArgs that gives an evaluated
\* argument by position and by keyword raises AssertionError, whatever the
\* sensitivity mode, the caller, the language flag and the hook; and wrapF
\* passes that error to its caller, without calling the handler or the store.
C6_DuplicateDetection ==
    /\ \A i \in 1..Len(calls) :
          GivenTwiceIn(calls[i].in) => calls[i].out = RaisedAssertion
    /\ (last.op = "wrapF" /\ Gated(last.rq) /\ GivenTwice(last.rq))
       => /\ last.out.kind = "raise"
          /\ last.out.exc = "AssertionError"
          /\ last.out.fCalls = 0
          /\ last.out.reads = 0
          /\ last.out.writes = 0
          /\ store = EmptyStore

\* id given twice by a logged-in user under userSensitive = 1 with a failing
\* hook: the error comes first, from keyFromArgs and through wrapF
C6_Witness ==
    /\ Len(calls) >= 1
    /\ GivenTwiceIn(calls[1].in)
    /\ calls[1].out = RaisedAssertion
    /\ wrapper.userSensitive = 1 /\ kin.user.auth
    /\ wrapper.languageSensitive
    /\ conf.cacheEnvironmentKey /\ kin.envKey = EnvRuntimeError
    /\ last.op = "wrapF" /\ last.out.exc = "AssertionError"

----------------------------------------------------------------------------
(* The life of an entity.                                                  *)

\* the entity a rebuild by the step's request writes
Written == NewEntity(last'.h.data, now, RequestPath(last'.rq), last'.h.ctype)

\* the entity under k is older than the wrapper's (positive) max-age allows
Stale(k) ==
    /\ wrapper.maxCacheTime.t = "int"
    /\ wrapper.maxCacheTime.v[1] > 0
    /\ now - store[k].creationtime >= wrapper.maxCacheTime.v[1]

\* prefix P, as flushCache is documented, covers path
Covers(P, path) ==
    \/ path = RStripStar(P)
    \/ Wildcard(P) /\ IsPrefix(RStripStar(P), path)

C11_NoEviction ==
    last'.op \in {"wrapF", "tick", "defer"}
    => \A k \in DOMAIN store : k \in DOMAIN store'

C11_OnlyOverwrite ==
    /\ last'.op \in {"tick", "defer"} => store' = store
    /\ WrapStep =>
          \A k \in DOMAIN store' :
              (k \notin DOMAIN store \/ store'[k] # store[k])
              => /\ KeyOf(last'.rq) = KeyResult(k)
                 /\ k \in DOMAIN store => Stale(k)
                 /\ store'[k] = Written

C11_OnlyFlushDeletes ==
    FlushStep =>
        /\ \A k \in DOMAIN store' : k \in DOMAIN store /\ store'[k] = store[k]
        /\ \A k \in DOMAIN store \ DOMAIN store' :
              Covers(last'.prefix, store[k].path)

\* C11. Entry lifecycle: no invocation of the wrapped handler and no passage
\* of time takes an entity out of the store, a stale one included; an entity
\* leaves the store only in a flush whose prefix covers its path; and the
\* only other change to an entity is its replacement, in all four fields, by
\* an invocation with the same key that found it missing or stale.
C11_Lifecycle ==
    [][C11_NoEviction /\ C11_OnlyOverwrite /\ C11_OnlyFlushDeletes]_vars

\* an entity two seconds past a max-age of one second is still stored, after
\* an invocation for another key and a flush of another path
C11_Witness ==
    /\ wrapper.maxCacheTime = IntVal(1)
    /\ last.op = "wrapF" /\ last.out.writes = 1
    /\ \E k \in DOMAIN store :
          /\ now - store[k].creationtime >= 2
          /\ store[k].path = Url(<<SegPage, SegView>>)
    /\ \E k \in DOMAIN store : store[k].creationtime = now

----------------------------------------------------------------------------
(* Properties of keyFromArgs over the two calls of SpecArgs.  What a call  *)
(* gives a parameter is read off the call here, not off keyFromArgs.       *)

Absent == [t |-> "absent", v |-> <<>>]

\* the parameter x of in.f has a declared default
HasDefault(in, x) ==
    \E i \in 1..Len(in.f.argsOrder) :
        in.f.argsOrder[i] = x /\ i > Len(in.f.argsOrder) - Len(in.f.defaults)

\* x is given by position
Positional(in, x) ==
    \E i \in 1..Len(in.f.argsOrder) : in.f.argsOrder[i] = x /\ i <= Len(in.args)

\* the value the call gives x: by keyword, by position, or by default
Given(in, x) ==
    IF x \in DOMAIN in.kwargs THEN in.kwargs[x]
    ELSE IF Positional(in, x)
    THEN in.args[CHOOSE i \in 1..Len(in.args) : in.f.argsOrder[i] = x]
    ELSE IF HasDefault(in, x)
    THEN in.f.defaults[(CHOOSE i \in 1..Len(in.f.argsOrder) : in.f.argsOrder[i] = x)
                       - (Len(in.f.argsOrder) - Len(in.f.defaults))]
    ELSE Absent

\* a and b are the same call but for the arguments
DifferInArgsOnly(a, b) == [a EXCEPT !.args = b.args, !.kwargs = b.kwargs] = b

\* a and b differ in one of the dimensions the key is said to depend on
OneDimension(a, b) ==
    \/ a.f # b.f /\ [a EXCEPT !.f = b.f] = b
    \/ /\ DifferInArgsOnly(a, b)
       /\ \E x \in a.evaluatedArgs : Given(a, x) # Given(b, x)
    \/ /\ [a EXCEPT !.user = b.user] = b
       /\ \/ a.userSensitive = 2 /\ a.user.auth # b.user.auth
          \/ a.userSensitive = 3 /\ a.user # b.user
    \/ /\ [a EXCEPT !.language = b.language] = b
       /\ a.languageSensitive /\ a.language # b.language
    \/ a.path # b.path /\ [a EXCEPT !.path = b.path] = b
    \/ a.envKey # b.envKey /\ [a EXCEPT !.envKey = b.envKey] = b
    \/ a.versionId # b.versionId /\ [a EXCEPT !.versionId = b.versionId] = b

\* C12 as claimed: the same inputs give the same key, and two calls that
\* differ in one contributing dimension (the handler, an evaluated argument's
\* value, the identity bucket, the language, the path, the hook's value, the
\* version) and both get a key get different keys.
C12_Original ==
    Len(calls) = 2 =>
        /\ calls[1].in = calls[2].in => calls[1].out = calls[2].out
        /\ (/\ OneDimension(calls[1].in, calls[2].in)
            /\ calls[1].out.kind = "key" /\ calls[2].out.kind = "key")
           => calls[1].out.key # calls[2].out.key

\* the call gives id and order once at most, and id at least
WellFormed(in) ==
    /\ Given(in, "id") # Absent
    /\ \A x \in {"id", "order"} : ~(x \in DOMAIN in.kwargs /\ Positional(in, x))

Unsupplied(in, x) ==
    /\ x \in in.evaluatedArgs
    /\ ~HasDefault(in, x)
    /\ Given(in, x) = Absent

\* x is one of the parameters in.f declares
Declared(in, x) == \E i \in 1..Len(in.f.argsOrder) : in.f.argsOrder[i] = x

\* C14 as claimed: a call that leaves an allowlisted parameter without a
\* default unsupplied gets None from keyFromArgs.
C14_Original ==
    \A i \in 1..Len(calls) :
        (\E x \in calls[i].in.evaluatedArgs : Unsupplied(calls[i].in, x))
        => calls[i].out = NoKey

\* C14. Completeness guard: a call that leaves unsupplied an allowlisted
\* parameter that the handler declares and gives no default never gets a
\* key: keyFromArgs returns None, or raises AssertionError when the call
\* gives another allowlisted argument twice.
C14_Completeness ==
    \A i \in 1..Len(calls) :
        (\E x \in calls[i].in.evaluatedArgs :
            Unsupplied(calls[i].in, x) /\ Declared(calls[i].in, x))
        => IF GivenTwiceIn(calls[i].in)
           THEN calls[i].out = RaisedAssertion
           ELSE calls[i].out = NoKey

\* compare(5) with id and style evaluated: style is missing, no key
C14_Witness ==
    /\ Len(calls) >= 1
    /\ calls[1].in.f = Compare
    /\ calls[1].in.evaluatedArgs = {"id", "style"}
    /\ calls[1].in.args = <<StrVal(SegFive)>> /\ calls[1].in.kwargs = NoKwargs
    /\ Unsupplied(calls[1].in, "style")
    /\ calls[1].out = NoKey

\* every allowlisted name has a value, the call gives the handler every
\* parameter it requires, and nothing else stands in the way of a key: no
\* argument twice, no guests-only refusal, no failing hook
Resolved(in) ==
    /\ \A x \in in.evaluatedArgs : Given(in, x) # Absent
    /\ \A i \in 1..Len(in.f.argsOrder) : Given(in, in.f.argsOrder[i]) # Absent
    /\ ~GivenTwiceIn(in)
    /\ ~(in.userSensitive = 1 /\ in.user.auth)
    /\ in.envKey # EnvRuntimeError

\* C19 as claimed: a call with every allowlisted parameter resolved gets a
\* key, whatever the handler declares beyond the allowlist; and two such
\* calls that differ only outside the allowlist get the same key.
C19_Original ==
    /\ \A i \in 1..Len(calls) :
          Resolved(calls[i].in) => calls[i].out.kind = "key"
    /\ (/\ Len(calls) = 2
        /\ DifferInArgsOnly(calls[1].in, calls[2].in)
        /\ Resolved(calls[1].in) /\ Resolved(calls[2].in)
        /\ \A x \in calls[1].in.evaluatedArgs :
              Given(calls[1].in, x) = Given(calls[2].in, x))
       => calls[1].out = calls[2].out

----------------------------------------------------------------------------
(* Store errors and versions.                                              *)

C15_Step ==
    LET k == KeyOf(last'.rq)
        db == last'.db
    IN  (WrapStep /\ Gated(last'.rq) /\ k.kind = "key")
        => /\ (db.get = "ok" /\ k.key \notin DOMAIN store /\ db.put = "ok")
              => (~last'.out.found /\ Rebuilt(k.key))
           /\ db.get # "ok"
              => /\ last'.out.kind = "raise" /\ last'.out.exc = "db.Error"
                 /\ last'.out.fCalls = 0
                 /\ last'.out.writes = 0
                 /\ store' = store
           /\ (db.get = "ok" /\ k.key \notin DOMAIN store /\ db.put # "ok")
              => /\ last'.out.kind = "raise" /\ last'.out.exc = "db.Error"
                 /\ last'.out.fCalls = 1
                 /\ OthersKept(k.key)

\* C15. Store errors: when db.Get finds no entity the invocation is a miss
\* (handler called once, entity written, result returned); when db.Get
\* fails otherwise the error reaches the caller, the handler is not called
\* and nothing is written; when db.Put fails the error reaches the caller
\* in place of the handler's result.
C15_StoreErrors == [][C15_Step]_vars

\* db.Get has failed for a key whose entity is stored: the caller got the
\* error, the handler did not run
C15_Witness ==
    /\ last.op = "wrapF"
    /\ last.db.get = "Error"
    /\ last.out.kind = "raise" /\ last.out.exc = "db.Error"
    /\ last.out.fCalls = 0
    /\ KeyOf(last.rq).key \in DOMAIN store

\* the part of a version id before its first "."; empty when there is no id
LeadingPart(vid) ==
    IF vid = VersionMissing THEN <<>>
    ELSE LET dots == {i \in 1..Len(vid.v) : vid.v[i] = 46}
             stop == IF dots = {} THEN Len(vid.v) + 1
                     ELSE CHOOSE i \in dots : \A j \in dots : i <= j
         IN  SubSeq(vid.v, 1, stop - 1)

\* the key of rq has the component c
HasComponent(rq, c) ==
    /\ KeyOf(rq).kind = "key"
    /\ \E i \in 1..Len(KeyOf(rq).key[2]) : KeyOf(rq).key[2][i] = c

\* C16 as claimed: a request handled under one version id is never served
\* what a request under another version id stored; and a request whose
\* version id cannot be determined still gets a key, with "" as the version.
C16_Original ==
    last.op = "wrapF" =>
        /\ last.out.kind = "return" /\ last.out.data = last.rq.versionId
        /\ last.rq.versionId = VersionMissing
           => HasComponent(last.rq, <<"__appVersion", EmptyStr>>)

\* C16. Version isolation: the part of the version id before its first "."
\* is a component of every key, so a request is served only what a request
\* under a version id with the same leading part stored; and a request whose
\* version id cannot be determined still gets a key, with "" as the version.
C16_VersionIsolation ==
    last.op = "wrapF" =>
        /\ last.out.kind = "return"
        /\ LeadingPart(last.out.data) = LeadingPart(last.rq.versionId)
        /\ HasComponent(last.rq, <<"__appVersion",
                                   StrVal(LeadingPart(last.rq.versionId))>>)

\* a request under "2.7" has missed, with the entities of "1.7" and of the
\* unknown version in the store
C16_Witness ==
    /\ last.op = "wrapF"
    /\ last.rq.versionId = Version2
    /\ ~last.out.found /\ last.out.fCalls = 1
    /\ \E k \in DOMAIN store : store[k].data = Version1
    /\ \E k \in DOMAIN store : store[k].data = VersionMissing

----------------------------------------------------------------------------
(* Invocations and flushes that interleave (SpecRace, SpecRaceFair).       *)

\* path is one that flushCache(P) deletes: the stem, or one in the range
\* of lines 210-211
InReach(P, path) ==
    \/ path = RStripStar(P)
    \/ /\ Wildcard(P)
       /\ StrLess(RStripStar(P), path)
       /\ StrLess(path, RStripStar(P) \o <<Chr.repl>>)

\* a flush of last.prefix has just returned, and no db.Put fell into it
QuietFlushDone == last.op = "flushCache" /\ ~last.raced

\* some deferred flushCache(p) waits in the task queue
Scheduled(p) == \E i \in 1..Len(tasks) : tasks[i] = p

\* C17 as claimed: a flush into which no write falls leaves no entity whose
\* path its prefix covers ("/page/*" covers "/page" and all below it), and
\* every flush scheduled is run in the end.
C17_Original ==
    /\ [](QuietFlushDone
           => \A k \in DOMAIN store : ~Covers(last.prefix, store[k].path))
    /\ \A p \in RacePrefixes :
          Scheduled(p) ~> (last.op = "flushCache" /\ last.prefix = p)

\* C17, as far as flushCache reaches: a flush into which no write falls
\* leaves no entity whose path is the stem or lies between the stem and
\* stem + U+FFFD, and every flush scheduled is run in the end.
C17_RepeatedFlush ==
    /\ [](QuietFlushDone
           => \A k \in DOMAIN store : ~InReach(last.prefix, store[k].path))
    /\ \A p \in RacePrefixes :
          Scheduled(p) ~> (last.op = "flushCache" /\ last.prefix = p)

\* a flush of "/page/*" has returned and an entity with path /page/view,
\* written while it ran, is in the store
C17_Witness ==
    /\ last.op = "flushCache"
    /\ last.prefix = Url(<<SegPage, <<Chr.star>>>>)
    /\ last.raced
    /\ \E k \in DOMAIN store : store[k].path = Url(<<SegPage, SegView>>)

\* the entity under k is what one invocation wrote: all four fields from
\* one request and one run of the handler
WholeRecord(k) ==
    \E rq \in RaceRequests, i \in RaceSlots :
        /\ KeyOf(rq) = KeyResult(k)
        /\ store[k] = NewEntity(RaceOutput(i).data, store[k].creationtime,
                                RequestPath(rq), RaceOutput(i).ctype)
        /\ store[k].creationtime \in 0..now

\* an invocation that missed has just called the handler and written
WroteAfterMiss ==
    last.op = "wrapF" /\ last.out.writes = 1 /\ ~last.out.found

\* C18. Concurrent misses: every invocation that misses calls the handler
\* once and writes, also when another invocation with the same key missed
\* and wrote in between; and every entity in the store is the whole record
\* (data, content type, path, creation time) of one of the writes, the
\* latest for its key.
C18_ConcurrentMisses ==
    /\ \A k \in DOMAIN store : WholeRecord(k)
    /\ WroteAfterMiss
       => /\ last.out.fCalls = 1
          /\ last.out.kind = "return" /\ last.out.data = last.h.data
          /\ store[KeyOf(last.rq).key] =
                NewEntity(last.h.data, now, RequestPath(last.rq), last.h.ctype)

\* two invocations of /page/view/5 have both missed: the one in slot 2 has
\* written its record, the one in slot 1 is about to call the handler
C18_Witness ==
    /\ WroteAfterMiss
    /\ last.h = RaceOutput(2)
    /\ run.req[1].pc = "rebuild"
    /\ run.req[1].rq = last.rq /\ ~run.req[1].found
    /\ store[KeyOf(last.rq).key].data = "body2"
    /\ store[KeyOf(last.rq).key].contentType = "application/json"

====
